---------------------------- MODULE Spec2Model ----------------------------
(***************************************************************************)
(* A model of two parts of the typst sources:                              *)
(*                                                                         *)
(*   src/src/eval/library.rs      the language item registry: the global   *)
(*                                LANG_ITEMS cell, set_lang_items, item!   *)
(*   src/src/layout/nodes/mod.rs  LayoutNode, Dynamic, DynNode and the     *)
(*                                layout dispatch                          *)
(*                                                                         *)
(* RegSpec is the registry used by several threads, NodeSpec the value     *)
(* semantics (equality, clone, drop) of layout nodes on a heap of boxes,   *)
(* LayoutSpec the dispatch of LayoutNode::layout.                          *)
(***************************************************************************)
EXTENDS Naturals, Sequences, FiniteSets

VARIABLES
    LANG_ITEMS,      \* the global cell: <<>> when empty, <<t>> when it holds table t
    pc,              \* per thread: "idle", "check" (inside set_lang_items), "panicked"
    arg,             \* per thread: <<items>> handed to the set_lang_items in progress
    last,            \* the registry operation that completed last
    firstInstalled,  \* history: the cell right after its first write
    writes,          \* history: how often the cell was written
    observed,        \* history: the tables that returning lookups read
    heap,            \* per address: <<>> (free) or <<payload>>, the value of a Box
    slots,           \* per slot: <<>> (nothing) or <<node>>, a LayoutNode owned there
    lastEq,          \* the comparison of two nodes made last, and its result
    snap,            \* history, per slot: <<>> or what the clone in it was made of
    lpc,             \* LayoutNode::layout: "idle", "awaiting", "ready", "done"
    largs,           \* <<>> or <<[ctx, k]>>: the arguments of the call
    lcalls,          \* the inner layout operations started, in order
    linflight,       \* the layout computations started and not completed
    lpolls,          \* how often the inner layout was found pending
    linner,          \* <<>> or <<items>>: what the inner layout returned
    lresult          \* <<>> or <<items>>: what LayoutNode::layout returned

regVars == <<LANG_ITEMS, pc, arg, last, firstInstalled, writes, observed>>

nodeVars == <<heap, slots, lastEq, snap>>

layoutVars == <<lpc, largs, lcalls, linflight, lpolls, linner, lresult>>

vars == <<LANG_ITEMS, pc, arg, last, firstInstalled, writes, observed,
          heap, slots, lastEq, snap,
          lpc, largs, lcalls, linflight, lpolls, linner, lresult>>

(***************************************************************************)
(*                       The language item registry                        *)
(***************************************************************************)

\* Number of threads that call into the registry.
NumThreads == 2

Threads == 1..NumThreads

\* The fields of LangItems, in declaration order.
Roles ==
    << "layout", "em", "dir", "space", "linebreak", "text", "text_id",
       "text_str", "smart_quote", "parbreak", "strong", "emph", "raw",
       "raw_languages", "link", "reference", "bibliography_keys", "heading",
       "list_item", "enum_item", "term_item", "formula", "math_align_point",
       "math_delimited", "math_attach", "math_accent", "math_frac",
       "counter_method" >>

RoleSet == {Roles[i] : i \in 1..Len(Roles)}

\* A binding is the identity of what a field holds: the address of a function
\* or a NodeId.  Two candidates per role are enough to tell tables apart.
Bindings == {"std", "alt"}

\* The table of the standard library.
StdItems == [r \in RoleSet |-> "std"]

\* The roles in which the tables handed to set_lang_items differ from the
\* standard one: a field hashed through a cast to usize (dir), fields hashed
\* as function pointers (space, parbreak), the NodeId (text_id), and the
\* three fields the Hash impl does not mention.
VariedRoles ==
    {"dir", "space", "text_id", "parbreak",
     "raw_languages", "bibliography_keys", "counter_method"}

\* The roles looked up through item!: the varied ones and two that every
\* table binds alike.
LookupRoles == VariedRoles \cup {"em", "heading"}

\* The tables handed to set_lang_items: the standard one, those that differ
\* from it in one role, and one that differs from it in two.
LangItems ==
    {StdItems}
        \cup {[StdItems EXCEPT ![r] = "alt"] : r \in VariedRoles}
        \cup {[StdItems EXCEPT !["dir"] = "alt", !["raw_languages"] = "alt"]}

\* The fields impl Hash for LangItems feeds to the hasher, in order.
HashedRoles ==
    << "layout", "em", "dir", "space", "linebreak", "text", "text_id",
       "text_str", "smart_quote", "parbreak", "strong", "emph", "raw", "link",
       "reference", "heading", "list_item", "enum_item", "term_item",
       "formula", "math_align_point", "math_delimited", "math_attach",
       "math_accent", "math_frac" >>

\* A hash that leaves the text direction accessor out.
HashLangItemsNoDir(items) ==
    [i \in 1..Len(HashedRoles) |->
        IF HashedRoles[i] = "dir" THEN "std" ELSE items[HashedRoles[i]]]

\* impl Hash for LangItems, lines 110-136: what hash() writes to the hasher.
HashLangItems(items) ==
    [i \in 1..Len(HashedRoles) |-> items[HashedRoles[i]]]

\* crate::util::hash128: a 128-bit digest of what the value's Hash impl feeds
\* to the hasher; equal streams give equal digests and the digest is taken to
\* be free of collisions.
hash128(items) == HashLangItems(items)

\* OnceCell::set that replaces the value of a full cell.
OnceCellSetOverwrite(c, items) ==
    [now |-> <<items>>, res |-> IF c = <<>> THEN "Ok" ELSE "Err"]

\* OnceCell::set: stores into an empty cell and answers Ok; leaves a full cell
\* alone and hands the value back in Err.
OnceCellSet(c, items) ==
    IF c = <<>>
    THEN [now |-> <<items>>, res |-> "Ok"]
    ELSE [now |-> c, res |-> "Err"]

\* The assertion inverted: assert_ne!.
AssertNe(first, second) == first # second

\* assert_eq!(first, second, "set differing lang items"): TRUE when it passes.
AssertEq(first, second) == first = second

\* LANG_ITEMS.get().unwrap().name on a full cell.
ItemOf(c, role) == c[1][role]

\* The record of a completed operation.
Done(op, items, role, outcome, before, against, value) ==
    [op |-> op, arg |-> items, role |-> role, outcome |-> outcome,
     before |-> before, against |-> against, value |-> value]

NoOp == Done("none", <<>>, "", "ok", <<>>, <<>>, "")

RegInit ==
    /\ LANG_ITEMS = <<>>
    /\ pc = [t \in Threads |-> "idle"]
    /\ arg = [t \in Threads |-> <<>>]
    /\ last = NoOp
    /\ firstInstalled = <<>>
    /\ writes = 0
    /\ observed = {}

\* A set_lang_items that tests the cell and writes it in two steps, so that
\* another thread can run in between.
set_lang_items_racy(t, items) ==
    \/ /\ pc[t] = "idle"
       /\ IF LANG_ITEMS = <<>>
          THEN pc' = [pc EXCEPT ![t] = "store"]
          ELSE pc' = [pc EXCEPT ![t] = "check"]
       /\ arg' = [arg EXCEPT ![t] = <<items>>]
       /\ UNCHANGED <<LANG_ITEMS, last, firstInstalled, writes, observed>>
       /\ UNCHANGED <<nodeVars, layoutVars>>
    \/ /\ pc[t] = "store"
       /\ arg[t] = <<items>>
       /\ LANG_ITEMS' = <<items>>
       /\ writes' = writes + 1
       /\ firstInstalled' = IF firstInstalled = <<>> THEN <<items>> ELSE firstInstalled
       /\ last' = Done("install", <<items>>, "", "ok", <<>>, <<>>, "")
       /\ pc' = [pc EXCEPT ![t] = "idle"]
       /\ arg' = [arg EXCEPT ![t] = <<>>]
       /\ UNCHANGED <<observed, nodeVars, layoutVars>>

\* set_lang_items, line 151: LANG_ITEMS.set(items).  On Ok the function
\* returns; on Err it goes on to compare the hashes.
set_lang_items(t, items) ==
    /\ pc[t] = "idle"
    /\ LET r == OnceCellSet(LANG_ITEMS, items) IN
        /\ LANG_ITEMS' = r.now
        /\ writes' = IF r.now # LANG_ITEMS THEN writes + 1 ELSE writes
        /\ firstInstalled' = IF firstInstalled = <<>> THEN r.now ELSE firstInstalled
        /\ IF r.res = "Ok"
           THEN /\ last' = Done("install", <<items>>, "", "ok", LANG_ITEMS, <<>>, "")
                /\ UNCHANGED <<pc, arg>>
           ELSE /\ pc' = [pc EXCEPT ![t] = "check"]
                /\ arg' = [arg EXCEPT ![t] = <<items>>]
                /\ UNCHANGED last
    /\ UNCHANGED observed
    /\ UNCHANGED <<nodeVars, layoutVars>>

\* set_lang_items, lines 152-154: hash the stored table and the rejected one
\* and assert that the hashes agree.
set_lang_items_check(t) ==
    /\ pc[t] = "check"
    /\ LET stored == LANG_ITEMS[1]
           first == hash128(stored)
           second == hash128(arg[t][1])
           passed == AssertEq(first, second)
       IN  /\ pc' = [pc EXCEPT ![t] = IF passed THEN "idle" ELSE "panicked"]
           /\ last' = Done("install", arg[t], "", IF passed THEN "ok" ELSE "panic",
                           LANG_ITEMS, <<stored>>, "")
    /\ arg' = [arg EXCEPT ![t] = <<>>]
    /\ UNCHANGED <<LANG_ITEMS, firstInstalled, writes, observed>>
    /\ UNCHANGED <<nodeVars, layoutVars>>

\* A lookup that falls back to the standard binding while the cell is empty.
item_or_default(t, role) ==
    /\ pc[t] = "idle"
    /\ LET c == IF LANG_ITEMS = <<>> THEN <<StdItems>> ELSE LANG_ITEMS IN
        /\ last' = Done("lookup", <<>>, role, "ok", LANG_ITEMS, <<>>, ItemOf(c, role))
        /\ observed' = observed \cup {c[1]}
    /\ UNCHANGED <<LANG_ITEMS, pc, arg, firstInstalled, writes>>
    /\ UNCHANGED <<nodeVars, layoutVars>>

\* item!(name): LANG_ITEMS.get().unwrap().name; unwrap panics on an empty cell.
item(t, role) ==
    /\ pc[t] = "idle"
    /\ IF LANG_ITEMS = <<>>
       THEN /\ pc' = [pc EXCEPT ![t] = "panicked"]
            /\ last' = Done("lookup", <<>>, role, "panic", LANG_ITEMS, <<>>, "")
            /\ UNCHANGED observed
       ELSE /\ last' = Done("lookup", <<>>, role, "ok", LANG_ITEMS, <<>>, ItemOf(LANG_ITEMS, role))
            /\ observed' = observed \cup {LANG_ITEMS[1]}
            /\ UNCHANGED pc
    /\ UNCHANGED <<LANG_ITEMS, arg, firstInstalled, writes>>
    /\ UNCHANGED <<nodeVars, layoutVars>>

RegNext ==
    \/ \E t \in Threads, items \in LangItems : set_lang_items(t, items)
    \/ \E t \in Threads : set_lang_items_check(t)
    \/ \E t \in Threads, role \in LookupRoles : item(t, role)


(***************************************************************************)
(*                    Layout nodes: LayoutNode, Dynamic                    *)
(***************************************************************************)

\* Number of places that own a LayoutNode.
MaxNodes == 2

Slots == 1..MaxNodes

\* The heap: a node owns at most one box, so one address per slot suffices.
Addr == 1..MaxNodes

\* The values of a payload's field; two are enough to tell payloads apart.
Vals == {0, 1}

\* The concrete node types: the two built-in leaves, which can be wrapped as
\* well, and a custom node whose derived equality is partial: it holds a
\* float, and its not-a-number value is unequal to itself.
Types == {"Spacing", "Text", "Partial"}

Payloads ==
    [ty : Types, val : Vals, nan : {FALSE}]
        \cup {[ty |-> "Partial", val |-> 0, nan |-> TRUE]}

\* T's own PartialEq, the `self == other` of dyn_eq.
PayloadEq(ty, a, b) ==
    IF ty = "Partial"
    THEN ~a.nan /\ ~b.nan /\ a.val = b.val
    ELSE a.val = b.val

\* T's own Clone, the `self.clone()` of dyn_clone: a copy of the fields.
PayloadClone(p) == [ty |-> p.ty, val |-> p.val, nan |-> p.nan]

\* T's own Debug: the type's name and its fields.
PayloadFmt(p) == <<p.ty, p.val, p.nan>>

\* as_any: the value itself, seen as dyn Any.
as_any(p) == p

\* Any::downcast_ref::<T>: Some(value) when the value's type is T, or None.
downcast_ref(any, ty) == IF any.ty = ty THEN <<any>> ELSE <<>>

\* dyn_eq that trusts the other value to be of its own type.
dyn_eq_unchecked(self, other) == PayloadEq(self.ty, self, as_any(other))

\* dyn_eq, lines 144-150.
dyn_eq(self, other) ==
    LET o == downcast_ref(as_any(other), self.ty) IN
    IF o # <<>> THEN PayloadEq(self.ty, self, o[1]) ELSE FALSE

\* impl PartialEq for Box<dyn DynNode>: self.dyn_eq(other.as_ref()).
Box_eq(h, a, b) == dyn_eq(h[a][1], h[b][1])

\* impl PartialEq for Dynamic: &self.0 == &other.0.
Dynamic_eq(h, a, b) == Box_eq(h, a, b)

\* Box::new: the value moves to the free address `at` that the allocator
\* picked.  Which free address that is cannot be observed; the actions take
\* the one that goes with the slot of the new owner.
Box_new(h, p, at) == [heap |-> [h EXCEPT ![at] = <<p>>], box |-> at]

\* A dyn_clone that hands out the box it was called on.
dyn_clone_shared(h, a, at) == [heap |-> h, box |-> a]

\* dyn_clone, lines 152-154: Box::new(self.clone()).
dyn_clone(h, a, at) == Box_new(h, PayloadClone(h[a][1]), at)

\* impl Clone for Box<dyn DynNode>: self.dyn_clone().
Box_clone(h, a, at) == dyn_clone(h, a, at)

\* Dynamic::new: Self(Box::new(inner)).  A Dynamic is its box.
Dynamic_new(h, inner, at) == Box_new(h, inner, at)

\* impl Deref for Dynamic: self.0.as_ref().
Dynamic_deref(h, a) == h[a][1]

\* The three variants of LayoutNode.
Inline(tag, p) == [tag |-> tag, inl |-> <<p>>, box |-> 0]

Dyn(a) == [tag |-> "Dyn", inl |-> <<>>, box |-> a]

\* The payload of the active variant.
PayloadOfNode(h, n) == IF n.tag = "Dyn" THEN Dynamic_deref(h, n.box) ELSE n.inl[1]

\* An equality that compares the payloads whatever the variants are.
LayoutNode_eq_any_variant(h, n1, n2) == dyn_eq(PayloadOfNode(h, n1), PayloadOfNode(h, n2))

\* derive(PartialEq) for LayoutNode: the same variant, and equal fields.
LayoutNode_eq(h, n1, n2) ==
    IF n1.tag # n2.tag
    THEN FALSE
    ELSE IF n1.tag = "Dyn"
         THEN Dynamic_eq(h, n1.box, n2.box)
         ELSE PayloadEq(n1.inl[1].ty, n1.inl[1], n2.inl[1])

\* derive(Clone) for LayoutNode and for Dynamic: the variant with its field
\* cloned.
LayoutNode_clone(h, n, at) ==
    IF n.tag = "Dyn"
    THEN LET r == Box_clone(h, n.box, at) IN [heap |-> r.heap, node |-> Dyn(r.box)]
    ELSE [heap |-> h, node |-> Inline(n.tag, PayloadClone(n.inl[1]))]

\* impl Debug for LayoutNode and for Dynamic: the payload's own format.
LayoutNode_fmt(h, n) == PayloadFmt(PayloadOfNode(h, n))

\* No comparison was made since the nodes last changed.
NoEq == [lhs |-> 0, rhs |-> 0, res |-> FALSE, fresh |-> FALSE, pair |-> FALSE]

NodeInit ==
    /\ heap = [a \in Addr |-> <<>>]
    /\ slots = [s \in Slots |-> <<>>]
    /\ lastEq = NoEq
    /\ snap = [s \in Slots |-> <<>>]

\* A slot whose node was the source of a clone stops being that clone's
\* unchanged source.
SourceGone(sn, s) ==
    [d \in Slots |->
        IF sn[d] # <<>> /\ sn[d][1].src = s
        THEN <<[sn[d][1] EXCEPT !.src = 0]>>
        ELSE sn[d]]

\* LayoutNode::Spacing(x) or LayoutNode::Text(x) comes to live in slot s.
NewLeaf(s, tag, p) ==
    /\ slots[s] = <<>>
    /\ p.ty = tag
    /\ slots' = [slots EXCEPT ![s] = <<Inline(tag, p)>>]
    /\ lastEq' = NoEq
    /\ UNCHANGED <<heap, snap>>
    /\ UNCHANGED <<regVars, layoutVars>>

\* LayoutNode::dynamic(inner) comes to live in slot s.
LayoutNode_dynamic(s, inner) ==
    /\ slots[s] = <<>>
    /\ LET r == Dynamic_new(heap, inner, s) IN
        /\ heap' = r.heap
        /\ slots' = [slots EXCEPT ![s] = <<Dyn(r.box)>>]
    /\ lastEq' = NoEq
    /\ UNCHANGED snap
    /\ UNCHANGED <<regVars, layoutVars>>

\* slot d takes slots[s].clone().
CloneNode(s, d) ==
    /\ slots[s] # <<>>
    /\ slots[d] = <<>>
    /\ LET r == LayoutNode_clone(heap, slots[s][1], d) IN
        /\ heap' = r.heap
        /\ slots' = [slots EXCEPT ![d] = <<r.node>>]
        /\ snap' = [snap EXCEPT ![d] =
                       <<[src |-> s, was |-> PayloadOfNode(heap, slots[s][1])]>>]
    /\ lastEq' = NoEq
    /\ UNCHANGED <<regVars, layoutVars>>

\* slots[a] == slots[b] is evaluated.
EqNodes(a, b) ==
    /\ slots[a] # <<>>
    /\ slots[b] # <<>>
    /\ lastEq' = [lhs |-> a, rhs |-> b,
                  res |-> LayoutNode_eq(heap, slots[a][1], slots[b][1]),
                  fresh |-> TRUE,
                  pair |-> snap[a] # <<>> /\ snap[a][1].src = b]
    /\ UNCHANGED <<heap, slots, snap>>
    /\ UNCHANGED <<regVars, layoutVars>>

\* The payload of the Dynamic in slot s is changed in place.
MutatePayload(s, p) ==
    /\ slots[s] # <<>>
    /\ slots[s][1].tag = "Dyn"
    /\ p.ty = heap[slots[s][1].box][1].ty
    /\ p # heap[slots[s][1].box][1]
    /\ heap' = [heap EXCEPT ![slots[s][1].box] = <<p>>]
    /\ snap' = [SourceGone(snap, s) EXCEPT ![s] = <<>>]
    /\ lastEq' = NoEq
    /\ UNCHANGED slots
    /\ UNCHANGED <<regVars, layoutVars>>

\* The node in slot s is dropped; the box of a Dynamic is freed with it.
DropNode(s) ==
    /\ slots[s] # <<>>
    /\ heap' = IF slots[s][1].tag = "Dyn"
               THEN [heap EXCEPT ![slots[s][1].box] = <<>>]
               ELSE heap
    /\ slots' = [slots EXCEPT ![s] = <<>>]
    /\ snap' = [SourceGone(snap, s) EXCEPT ![s] = <<>>]
    /\ lastEq' = NoEq
    /\ UNCHANGED <<regVars, layoutVars>>

NodeNext ==
    \/ \E s \in Slots, tag \in {"Spacing", "Text"}, p \in Payloads : NewLeaf(s, tag, p)
    \/ \E s \in Slots, p \in Payloads : LayoutNode_dynamic(s, p)
    \/ \E s, d \in Slots : CloneNode(s, d)
    \/ \E a, b \in Slots : EqNodes(a, b)
    \/ \E s \in Slots, p \in Payloads : MutatePayload(s, p)
    \/ \E s \in Slots : DropNode(s)

(***************************************************************************)
(*                     Layout: impl Layout for LayoutNode                  *)
(***************************************************************************)

\* How often the inner layout may be found pending before it completes.
MaxPolls == 2

\* The layout contexts and the constraints a call is made with.
Contexts == {"ctx1", "ctx2"}

Constraints == {"k1", "k2"}

\* The Layout impl of the concrete type: the items it produces for a value,
\* a context and constraints; two items, so that their order shows.
InnerLayout(p, ctx, k) ==
    << [of |-> PayloadFmt(p), ctx |-> ctx, k |-> k, n |-> 1],
       [of |-> PayloadFmt(p), ctx |-> ctx, k |-> k, n |-> 2] >>

\* A match whose Dyn arm lays the box out as if it were a text leaf.
LayoutTargetDynAsText(h, n) ==
    IF n.tag = "Dyn"
    THEN [via |-> "Text", on |-> [ty |-> "Text", val |-> 0, nan |-> FALSE]]
    ELSE [via |-> n.tag, on |-> n.inl[1]]

\* The match of LayoutNode::layout, lines 62-66: the arm taken and the value
\* whose layout it calls; the Dyn arm reaches it through Deref.
LayoutTarget(h, n) ==
    IF n.tag = "Dyn"
    THEN [via |-> "Dyn", on |-> Dynamic_deref(h, n.box)]
    ELSE [via |-> n.tag, on |-> n.inl[1]]

\* The node that is laid out lives in slot 1.
LaidOut == slots[1][1]

LayoutInit ==
    /\ lpc = "idle"
    /\ largs = <<>>
    /\ lcalls = <<>>
    /\ linflight = 0
    /\ lpolls = 0
    /\ linner = <<>>
    /\ lresult = <<>>

\* Any one node in slot 1: a leaf, or a Dynamic with its box.
OneNodeInit ==
    /\ lastEq = NoEq
    /\ snap = [s \in Slots |-> <<>>]
    /\ \E p \in Payloads :
        \/ /\ p.ty \in {"Spacing", "Text"}
           /\ slots = [s \in Slots |-> IF s = 1 THEN <<Inline(p.ty, p)>> ELSE <<>>]
           /\ heap = [a \in Addr |-> <<>>]
        \/ /\ slots = [s \in Slots |-> IF s = 1 THEN <<Dyn(1)>> ELSE <<>>]
           /\ heap = [a \in Addr |-> IF a = 1 THEN <<p>> ELSE <<>>]

\* layout(ctx, constraints) is called and runs up to the await of the arm it
\* matched: the inner layout is started.
LayoutNode_layout(ctx, k) ==
    /\ lpc = "idle"
    /\ largs' = <<[ctx |-> ctx, k |-> k]>>
    /\ LET t == LayoutTarget(heap, LaidOut) IN
        lcalls' = Append(lcalls, [via |-> t.via, on |-> t.on, ctx |-> ctx, k |-> k])
    /\ linflight' = linflight + 1
    /\ lpc' = "awaiting"
    /\ UNCHANGED <<lpolls, linner, lresult>>
    /\ UNCHANGED <<regVars, nodeVars>>

\* The inner layout waits for a resource: the await finds it pending.
InnerPending ==
    /\ lpc = "awaiting"
    /\ lpolls < MaxPolls
    /\ lpolls' = lpolls + 1
    /\ UNCHANGED <<lpc, largs, lcalls, linflight, linner, lresult>>
    /\ UNCHANGED <<regVars, nodeVars>>

\* The inner layout completes with its items.
InnerReady ==
    /\ lpc = "awaiting"
    /\ LET c == lcalls[Len(lcalls)] IN linner' = <<InnerLayout(c.on, c.ctx, c.k)>>
    /\ linflight' = linflight - 1
    /\ lpc' = "ready"
    /\ UNCHANGED <<largs, lcalls, lpolls, lresult>>
    /\ UNCHANGED <<regVars, nodeVars>>

\* The await yields the inner layout's items and layout returns them.
LayoutReturn ==
    /\ lpc = "ready"
    /\ lresult' = linner
    /\ lpc' = "done"
    /\ UNCHANGED <<largs, lcalls, linflight, lpolls, linner>>
    /\ UNCHANGED <<regVars, nodeVars>>

LayoutNext ==
    \/ \E ctx \in Contexts, k \in Constraints : LayoutNode_layout(ctx, k)
    \/ InnerPending
    \/ InnerReady
    \/ LayoutReturn

(***************************************************************************)
(*                           The specifications                            *)
(*                                                                         *)
(* The registry, the nodes and the layout call share no state, so each is  *)
(* explored on its own, the variables of the other two standing still.     *)
(***************************************************************************)

\* Nothing installed, no node built, no layout called.
Init == RegInit /\ NodeInit /\ LayoutInit

\* As Init, with the node to lay out in place.
InitWithNode == RegInit /\ OneNodeInit /\ LayoutInit

RegSpec == Init /\ [][RegNext]_vars

NodeSpec == Init /\ [][NodeNext]_vars

LayoutSpec == InitWithNode /\ [][LayoutNext]_vars

(***************************************************************************)
(*                         Claims on the registry                          *)
(***************************************************************************)

\* The last completed operation is a set_lang_items that found the cell full.
Reinstalled == last.op = "install" /\ last.before # <<>>

\* The tables a and b bind every role alike, except exactly the role r.
DiffersOnlyIn(a, b, r) ==
    /\ a[r] # b[r]
    /\ \A q \in RoleSet \ {r} : a[q] = b[q]

\* C1: once a table T is installed, a later install(T') returns normally
\* only if T' binds every role of LangItems to the same value as T; an
\* install of a table that differs from T in some role is fatal.
C1_ReinstallReturnsOnlyIfSameTable ==
    (Reinstalled /\ last.outcome = "ok")
        => \A r \in RoleSet : last.arg[1][r] = last.before[1][r]

\* C2: an install on a full cell with a table whose hash differs from the
\* hash of the stored table, as when the two differ only in dir, never
\* returns normally: it ends in the panic of the assertion.
C2_HashMismatchIsFatal ==
    (/\ Reinstalled
     /\ \/ hash128(last.arg[1]) # hash128(last.before[1])
        \/ DiffersOnlyIn(last.arg[1], last.before[1], "dir"))
        => last.outcome = "panic"

C2_Witness ==
    /\ Reinstalled
    /\ DiffersOnlyIn(last.arg[1], last.before[1], "dir")
    /\ last.outcome = "panic"
    /\ \E t \in Threads : pc[t] = "panicked"

\* C3: the install on the empty cell returns normally, an install that
\* follows it with a table of equal hash returns normally too, and after it
\* every role looks up to what it looked up to after the first install.
C3_IdempotentReinstall ==
    /\ (last.op = "install" /\ last.before = <<>>)
          => (last.outcome = "ok" /\ LANG_ITEMS = last.arg)
    /\ (Reinstalled /\ hash128(last.arg[1]) = hash128(last.before[1]))
          => /\ last.outcome = "ok"
             /\ \A r \in RoleSet : ItemOf(LANG_ITEMS, r) = ItemOf(firstInstalled, r)

C3_Witness ==
    /\ Reinstalled
    /\ last.outcome = "ok"
    /\ last.arg # last.before
    /\ hash128(last.arg[1]) = hash128(last.before[1])

\* C4: from the first install of T on, whatever installs (repeated, or
\* fatal) and lookups follow, the cell holds T, it was written once, and a
\* lookup that returns yields T's binding of its role.
C4_WriteOnceStableReads ==
    firstInstalled # <<>>
        => /\ LANG_ITEMS = firstInstalled
           /\ writes = 1
           /\ (last.op = "lookup" /\ last.outcome = "ok")
                 => last.value = firstInstalled[1][last.role]

\* A thread died in an install of another table; a lookup of parbreak after
\* that still yields the constructor the first table bound to it.
C4_Witness ==
    /\ firstInstalled = <<[StdItems EXCEPT !["parbreak"] = "alt"]>>
    /\ \E t \in Threads : pc[t] = "panicked"
    /\ \E t \in Threads : pc[t] = "check"
    /\ last.op = "lookup"
    /\ last.role = "parbreak"
    /\ last.value = "alt"

\* C5: a lookup on the empty cell panics and yields nothing; a lookup that
\* returns was preceded by an install that stored its table, and yields that
\* table's binding.
C5_LookupBeforeInstallPanics ==
    last.op = "lookup"
        => /\ last.before = <<>> => (last.outcome = "panic" /\ last.value = "")
           /\ last.outcome = "ok"
                 => /\ firstInstalled # <<>>
                    /\ writes >= 1
                    /\ last.value = firstInstalled[1][last.role]

C5_Witness ==
    /\ last.op = "lookup"
    /\ last.before = <<>>
    /\ last.outcome = "panic"
    /\ \E t \in Threads : pc[t] = "panicked"

\* C6: however the installs and lookups of the threads interleave, the cell
\* is written at most once, by exactly one install; every other install is
\* compared by hash with the stored table, returns when the hashes agree and
\* panics when they differ; and all lookups that return read one table.
C6_WrittenAtMostOnce ==
    /\ writes <= 1
    /\ last.op = "install" => writes = 1
    /\ Reinstalled
          => /\ last.against = LANG_ITEMS
             /\ last.against = firstInstalled
             /\ last.outcome = "ok" <=> hash128(last.arg[1]) = hash128(LANG_ITEMS[1])
    /\ Cardinality(observed) <= 1

\* Two threads are inside set_lang_items at once, both turned away by the
\* cell, one with the stored table's hash and one without, while lookups
\* have already returned.
C6_Witness ==
    \E t1, t2 \in Threads :
        /\ pc[t1] = "check" /\ pc[t2] = "check"
        /\ hash128(arg[t1][1]) = hash128(LANG_ITEMS[1])
        /\ hash128(arg[t2][1]) # hash128(LANG_ITEMS[1])
        /\ observed # {}

(***************************************************************************)
(*                        Claims on the layout nodes                       *)
(***************************************************************************)

NodeIn(s) == slots[s][1]

PayloadIn(s) == PayloadOfNode(heap, NodeIn(s))

\* The comparison made last is of two Dynamic wrappers.
ComparedDynamics ==
    /\ lastEq.fresh
    /\ NodeIn(lastEq.lhs).tag = "Dyn"
    /\ NodeIn(lastEq.rhs).tag = "Dyn"

\* C7: a == b on two Dynamic wrappers is true exactly when the payload of b
\* has the concrete type of the payload of a and the payloads are equal
\* under that type's own equality; with different concrete types it is
\* false whatever the payloads hold, and it always yields a boolean.
C7_WrapperEqualityLaw ==
    ComparedDynamics
        => LET a == PayloadIn(lastEq.lhs)
               b == PayloadIn(lastEq.rhs)
           IN  /\ lastEq.res \in BOOLEAN
               /\ lastEq.res <=> (a.ty = b.ty /\ PayloadEq(a.ty, a, b))
               /\ a.ty # b.ty => ~lastEq.res

\* A custom node and a wrapped text leaf with the same field value compare
\* unequal.
C7_Witness ==
    /\ ComparedDynamics
    /\ PayloadIn(lastEq.lhs).ty = "Partial"
    /\ PayloadIn(lastEq.rhs).ty = "Text"
    /\ PayloadIn(lastEq.lhs).val = PayloadIn(lastEq.rhs).val
    /\ ~PayloadIn(lastEq.lhs).nan
    /\ ~lastEq.res

\* What C8 says of a comparison beyond the clone law: a Dyn variant is
\* unequal to a Spacing or Text variant, and two nodes of one variant compare
\* as their payloads do.
UnionEqDelegates ==
    lastEq.fresh
        => LET n1 == NodeIn(lastEq.lhs)
               n2 == NodeIn(lastEq.rhs)
               a == PayloadIn(lastEq.lhs)
               b == PayloadIn(lastEq.rhs)
           IN  /\ n1.tag # n2.tag => ~lastEq.res
               /\ (n1.tag = n2.tag /\ n1.tag # "Dyn")
                     => (lastEq.res <=> PayloadEq(n1.tag, a, b))
               /\ (n1.tag = n2.tag /\ n1.tag = "Dyn")
                     => (lastEq.res <=> (a.ty = b.ty /\ PayloadEq(a.ty, a, b)))

\* What C8 says of clone: the clone has the variant of its source and the
\* clone of the source's payload.
UnionCloneDelegates ==
    \A d \in Slots :
        (snap[d] # <<>> /\ snap[d][1].src # 0)
            => /\ NodeIn(d).tag = NodeIn(snap[d][1].src).tag
               /\ PayloadIn(d) = PayloadClone(PayloadIn(snap[d][1].src))

\* The comparison made last is of the clone of a Dyn node with its source.
ComparedCloneWithSource ==
    /\ lastEq.fresh
    /\ lastEq.pair
    /\ NodeIn(lastEq.lhs).tag = "Dyn"

\* C8 as stated: LayoutNode::Dyn(wrap(x)).clone() == LayoutNode::Dyn(wrap(x))
\* for any x; a Dyn variant never equals a Spacing or Text variant; equality
\* and clone of the union are those of the active variant's payload.
C8_CloneEqualsSourceForAnyPayload ==
    /\ ComparedCloneWithSource => lastEq.res
    /\ UnionEqDelegates
    /\ UnionCloneDelegates

\* C8 as amended: LayoutNode::Dyn(wrap(x)).clone() == LayoutNode::Dyn(wrap(x))
\* holds for exactly the x whose clone is equal to x under x's type's own
\* equality; a Dyn variant never equals a Spacing or Text variant; equality
\* and clone of the union are those of the active variant's payload.
C8_CloneEqualsSourceIffPayloadDoes ==
    /\ ComparedCloneWithSource
          => LET x == PayloadIn(lastEq.rhs) IN
             lastEq.res <=> PayloadEq(x.ty, PayloadClone(x), x)
    /\ UnionEqDelegates
    /\ UnionCloneDelegates

\* The clone of a Dyn node that wraps a Spacing value equals its source.
C8_Witness ==
    /\ ComparedCloneWithSource
    /\ PayloadIn(lastEq.rhs).ty = "Spacing"
    /\ lastEq.res

C10_LayoutDispatch ==
    /\ linflight <= 1
    /\ Len(lcalls) <= 1
    /\ lpc \in {"idle", "awaiting", "ready", "done"}
    /\ lpc # "idle"
          => /\ Len(lcalls) = 1
             /\ lcalls[1].via = LaidOut.tag
             /\ lcalls[1].on = PayloadOfNode(heap, LaidOut)
             /\ lcalls[1].ctx = largs[1].ctx
             /\ lcalls[1].k = largs[1].k
    /\ lpc = "awaiting" => (linflight = 1 /\ lresult = <<>>)
    /\ lpc = "done"
          => /\ linflight = 0
             /\ linner # <<>>
             /\ lresult = linner
             /\ lresult[1] = InnerLayout(PayloadOfNode(heap, LaidOut),
                                         largs[1].ctx, largs[1].k)

\* The layout of a Dyn node returned after its inner layout was found
\* pending on the way.
C10_Witness ==
    /\ lpc = "done"
    /\ LaidOut.tag = "Dyn"
    /\ lpolls > 0
    /\ Len(lresult[1]) = 2
    /\ lresult[1][1].n = 1

=============================================================================
